---------------------------- MODULE Spec2Model ----------------------------
(*
  InterviewAnalyticsPrep: the normalisation / reshaping step
  (src/prepare_data.py), the report pipeline (src/run_analysis.py) and the
  dashboard script (dashboards/app.py).

  Text is modelled as a sequence of one-character strings, so that lower(),
  strip(), the regular expression 20\d{2}, str.contains and the ordering of
  labels are computed and not assumed.  A float is modelled exactly, as a
  reduced fraction, NaN or a signed infinity.
*)
EXTENDS Integers, Sequences, FiniteSets, TLC

VARIABLES
    raw,      \* the spreadsheet read by prepare_data.main: [columns, rows]
    prep,     \* prepare_data.main: [pc, columns, year_cols, long_df]
    df,       \* the processed long table read by the report and the dashboard
    report,   \* the outcome of run_analysis.main
    dash      \* the outcome of one run of the dashboard script

vars == <<raw, prep, df, report, dash>>

---------------------------------------------------------------------------
(* Bounds of the model *)

MaxRawCols == 3
MaxRawRows == 2
MaxRows == 3
MaxRowsMissing == 2

---------------------------------------------------------------------------
(* Text *)

\* The characters used, in code point order.
Alphabet ==
    <<" ", "/", "0", "1", "2", "3", "4", "5", "6", "7", "8", "9",
      "A", "B", "C", "D", "E", "F", "G", "H", "I", "J", "K", "L", "M",
      "N", "O", "P", "Q", "R", "S", "T", "U", "V", "W", "X", "Y", "Z", "_",
      "a", "b", "c", "d", "e", "f", "g", "h", "i", "j", "k", "l", "m",
      "n", "o", "p", "q", "r", "s", "t", "u", "v", "w", "x", "y", "z">>

\* ord(c), counted within the alphabet
CharCodes ==
    [c \in {Alphabet[i] : i \in 1..Len(Alphabet)} |->
        CHOOSE i \in 1..Len(Alphabet) : Alphabet[i] = c]

CharCode(c) == CharCodes[c]

Digits == {"0", "1", "2", "3", "4", "5", "6", "7", "8", "9"}

DigitVal(c) == CharCode(c) - CharCode("0")

IsUpper(c) == CharCode(c) >= CharCode("A") /\ CharCode(c) <= CharCode("Z")

LowerChars ==
    [c \in DOMAIN CharCodes |->
        IF IsUpper(c) THEN Alphabet[CharCode(c) - CharCode("A") + CharCode("a")]
        ELSE c]

LowerChar(c) == LowerChars[c]

\* str.lower()
Lower(s) == [i \in 1..Len(s) |-> LowerChar(s[i])]

\* str.strip(): leading and trailing whitespace removed
Strip(s) ==
    LET keep == {i \in 1..Len(s) : s[i] # " "}
    IN IF keep = {} THEN <<>>
       ELSE LET lo == CHOOSE i \in keep : \A j \in keep : i <= j
                hi == CHOOSE i \in keep : \A j \in keep : i >= j
            IN SubSeq(s, lo, hi)

\* the positions at which sub occurs in s
Occurrences(s, sub) ==
    {i \in 1..(Len(s) - Len(sub) + 1) : SubSeq(s, i, i + Len(sub) - 1) = sub}

\* Series.str.contains(sub, case=False, na=False) on one value
ContainsNoCase(s, sub) == Occurrences(Lower(s), Lower(sub)) # {}

\* the positions at which the pattern 20\d{2} matches in s
YearMatches(s) ==
    {i \in 1..(Len(s) - 3) :
        /\ s[i] = "2"
        /\ s[i + 1] = "0"
        /\ s[i + 2] \in Digits
        /\ s[i + 3] \in Digits}

\* re.search(r"20\d{2}", c) is not None
HasYearToken(s) == YearMatches(s) # {}

\* str.extract(r"(20\d{2})").astype(int): the first match, as an integer
ExtractYear(s) ==
    LET i == CHOOSE k \in YearMatches(s) : \A j \in YearMatches(s) : k <= j
    IN 2000 + 10 * DigitVal(s[i + 2]) + DigitVal(s[i + 3])

\* lexicographic order of two texts by code point
RECURSIVE TextLess(_, _)
TextLess(a, b) ==
    IF b = <<>> THEN FALSE
    ELSE IF a = <<>> THEN TRUE
    ELSE IF a[1] # b[1] THEN CharCode(a[1]) < CharCode(b[1])
    ELSE TextLess(Tail(a), Tail(b))

\* str(n) of a non-negative integer
RECURSIVE IntStr(_)
IntStr(n) ==
    IF n < 10 THEN <<Alphabet[CharCode("0") + n]>>
    ELSE Append(IntStr(n \div 10), Alphabet[CharCode("0") + (n % 10)])

---------------------------------------------------------------------------
(* Sequences *)

Range(s) == {s[i] : i \in 1..Len(s)}

RECURSIVE SelectIdx(_, _)
\* the increasing sequence of the members of the set of indices I
SelectIdx(I, n) ==
    IF n = 0 THEN <<>>
    ELSE IF n \in I THEN Append(SelectIdx(I, n - 1), n)
    ELSE SelectIdx(I, n - 1)

RECURSIVE SumSeq(_)
SumSeq(s) == IF s = <<>> THEN 0 ELSE s[1] + SumSeq(Tail(s))

RECURSIVE Flatten(_)
Flatten(ss) == IF ss = <<>> THEN <<>> ELSE ss[1] \o Flatten(Tail(ss))

Head5(s) == SubSeq(s, 1, IF Len(s) < 5 THEN Len(s) ELSE 5)

---------------------------------------------------------------------------
(* prepare_data.py *)

T_resource_zone == <<"r","e","s","o","u","r","c","e"," ","z","o","n","e">>
T_business_type == <<"b","u","s","i","n","e","s","s","_","t","y","p","e">>
T_occupancy_status ==
    <<"o","c","c","u","p","a","n","c","y","_","s","t","a","t","u","s">>
T_property_id == <<"p","r","o","p","e","r","t","y","_","i","d">>

\* COLUMN_ALIASES, in the dict's insertion order, each with its ordered aliases
COLUMN_ALIASES ==
    << [target |-> T_resource_zone,
        aliases |-> << <<"r","e","s","o","u","r","c","e"," ","z","o","n","e">>,
                       <<"z","o","n","e">>,
                       <<"r","z">> >>],
       [target |-> T_business_type,
        aliases |-> << <<"t","y","p","e"," ","o","f"," ","b","u","s","i","n","e","s","s">>,
                       <<"a","c","c","o","u","n","t"," ","t","y","p","e">> >>],
       [target |-> T_occupancy_status,
        aliases |-> << <<"o","c","c","u","p","a","n","c","y"," ","s","t","a","t","u","s">>,
                       <<"o","c","c","u","p","i","e","d","/","v","a","c","a","n","t">>,
                       <<"s","t","a","t","u","s">> >>],
       [target |-> T_property_id,
        aliases |-> << <<"s","p","i","d">>,
                       <<"i","d">>,
                       <<"s","i","t","e"," ","i","d">> >>] >>

\* line 17: df.columns = [c.strip().lower() for c in df.columns]
LoweredColumns(cols) == [i \in 1..Len(cols) |-> Lower(Strip(cols[i]))]

\* lines 20-23: the first alias of the list that is a column, or <<>> (no break)
FirstAlias(aliases, cols) ==
    LET hit == {k \in 1..Len(aliases) : aliases[k] \in Range(cols)}
    IN IF hit = {} THEN <<>>
       ELSE <<aliases[CHOOSE k \in hit : \A j \in hit : k <= j]>>

\* lines 18-23: the rename dict, as the set of (alias, target) pairs
RenameMap(cols) ==
    {<<FirstAlias(COLUMN_ALIASES[t].aliases, cols)[1], COLUMN_ALIASES[t].target>> :
        t \in {u \in 1..Len(COLUMN_ALIASES) :
                  FirstAlias(COLUMN_ALIASES[u].aliases, cols) # <<>>}}

\* line 24: df.rename(columns=rename) renames every column that carries a key
RenameColumn(c, rename) ==
    IF \E p \in rename : p[1] = c
    THEN (CHOOSE p \in rename : p[1] = c)[2]
    ELSE c

normalize_columns(cols) ==
    LET lowered == LoweredColumns(cols)
        rename == RenameMap(lowered)
    IN [i \in 1..Len(lowered) |-> RenameColumn(lowered[i], rename)]

\* the positions of the columns whose name contains a 20xx token
detect_year_columns(cols) == {i \in 1..Len(cols) : HasYearToken(cols[i])}

\* a cell of the sheet: a number, a text or an empty cell
NumCell(n) == [t |-> "num", v |-> n]
TextCell(s) == [t |-> "str", v |-> s]
NaNCell == [t |-> "nan", v |-> 0]

RECURSIVE DigitsValue(_)
DigitsValue(s) ==
    IF s = <<>> THEN 0
    ELSE 10 * DigitsValue(SubSeq(s, 1, Len(s) - 1)) + DigitVal(s[Len(s)])

\* an optionally signed run of digits, surrounded by whitespace
IsIntegerText(s) ==
    LET b == Strip(s)
        u == IF b # <<>> /\ b[1] = "-" THEN Tail(b) ELSE b
    IN u # <<>> /\ \A i \in 1..Len(u) : u[i] \in Digits

\* pd.to_numeric(errors="coerce") on one cell
to_numeric(cell) ==
    IF cell.t = "num" THEN cell
    ELSE IF cell.t = "str" /\ IsIntegerText(cell.v)
    THEN LET b == Strip(cell.v)
         IN IF b[1] = "-" THEN NumCell(0 - DigitsValue(Tail(b)))
            ELSE NumCell(DigitsValue(b))
    ELSE NaNCell

\* lines 36-39: melt, one record per (year column, row), column by column
MeltRows(cols, rows, ycols) ==
    LET ys == SelectIdx(ycols, Len(cols))
        ids == SelectIdx((1..Len(cols)) \ ycols, Len(cols))
    IN Flatten([k \in 1..Len(ys) |->
                  [r \in 1..Len(rows) |->
                     [row |-> r,
                      ids |-> [j \in 1..Len(ids) |-> rows[r][ids[j]]],
                      year_col |-> cols[ys[k]],
                      year |-> ExtractYear(cols[ys[k]]),
                      consumption |-> to_numeric(rows[r][ys[k]])]]])

\* line 40: dropna(subset=["consumption"])
DropNaConsumption(long) ==
    SelectSeq(long, LAMBDA x : x.consumption.t # "nan")


\* the spreadsheet's column names, as read (read_excel keeps them distinct)
RawNames ==
    << <<"Z","o","n","e">>,
       <<" ","z","o","n","e">>,
       <<"R","Z">>,
       <<"S","t","a","t","u","s">>,
       <<"2","0","2","0">>,
       <<"2","0","2","1"," ">>,
       <<"F","Y","2","0","2","0">>,
       <<"R","e","f","2","0","2","1">> >>

\* the cells a year column may hold, and the cells a descriptive column may hold
YearCells == {NumCell(5), TextCell(<<" ","7">>), TextCell(<<"x">>), NaNCell}
IdCells == {TextCell(<<"a">>), NaNCell}

\* the column sets of the model: columns in the order of RawNames, at least
\* one of them with a 20xx token
RawColumnChoices ==
    {J \in SUBSET (1..Len(RawNames)) :
        /\ Cardinality(J) \in 1..MaxRawCols
        /\ \E j \in J : HasYearToken(RawNames[j])}

RawColumns(J) ==
    LET idx == SelectIdx(J, Len(RawNames))
    IN [i \in 1..Len(idx) |-> RawNames[idx[i]]]

\* the rows a sheet with these columns may hold
RawRows(cols) ==
    {r \in [1..Len(cols) -> YearCells \cup IdCells] :
        \A i \in 1..Len(cols) :
            r[i] \in (IF HasYearToken(cols[i]) THEN YearCells ELSE IdCells)}

NoPrep == [pc |-> "idle", columns |-> <<>>, year_cols |-> {}, long_df |-> <<>>]
NoTable == [columns |-> <<>>, rows |-> <<>>]
NoFrame == [schema |-> {}, rows |-> <<>>]
NotRun == [ran |-> FALSE]

HasDuplicates(cols) == \E i, j \in 1..Len(cols) : i # j /\ cols[i] = cols[j]

\* prepare_data.main, lines 31-32: read the sheet and normalise its columns
Normalize ==
    /\ prep.pc = "read"
    /\ prep' = [prep EXCEPT !.pc = "normalized",
                            !.columns = normalize_columns(raw.columns)]
    /\ UNCHANGED <<raw, df, report, dash>>

\* prepare_data.main, lines 33-40: detect the year columns, melt, coerce, dropna
Reshape ==
    /\ prep.pc = "normalized"
    /\ ~HasDuplicates(prep.columns)
    /\ LET ycols == detect_year_columns(prep.columns)
       IN prep' = [prep EXCEPT
                     !.pc = "long",
                     !.year_cols = ycols,
                     !.long_df = DropNaConsumption(
                                    MeltRows(prep.columns, raw.rows, ycols))]
    /\ UNCHANGED <<raw, df, report, dash>>

\* prepare_data.main, line 36, on a frame two of whose columns carry the same
\* label: what DataFrame.melt does there is not modelled, main is not followed
ReshapeDuplicateLabels ==
    /\ prep.pc = "normalized"
    /\ HasDuplicates(prep.columns)
    /\ prep' = [prep EXCEPT !.pc = "duplicate_labels"]
    /\ UNCHANGED <<raw, df, report, dash>>

InitPrepare ==
    /\ \E J \in RawColumnChoices :
         LET cols == RawColumns(J)
         IN \E n \in 1..MaxRawRows :
              \E rs \in [1..n -> RawRows(cols)] :
                 raw = [columns |-> cols, rows |-> rs]
    /\ prep = [NoPrep EXCEPT !.pc = "read"]
    /\ df = NoFrame
    /\ report = NotRun
    /\ dash = NotRun

NextPrepare == Normalize \/ Reshape \/ ReshapeDuplicateLabels

SpecPrepare == InitPrepare /\ [][NextPrepare]_vars

---------------------------------------------------------------------------
(* Floats: a reduced fraction n/d with d > 0, NaN, or an infinity of sign n *)

NaN == [k |-> "nan", n |-> 0, d |-> 0]
Inf(sign) == [k |-> "inf", n |-> sign, d |-> 0]

Abs(x) == IF x < 0 THEN 0 - x ELSE x
Sign(x) == IF x < 0 THEN 0 - 1 ELSE IF x > 0 THEN 1 ELSE 0

RECURSIVE Gcd(_, _)
Gcd(a, b) == IF b = 0 THEN a ELSE Gcd(b, a % b)

\* the fraction n/d, d # 0
Frac(n, d) ==
    LET g == Gcd(Abs(n), Abs(d))
    IN [k |-> "num", n |-> (Sign(d) * n) \div g, d |-> Abs(d) \div g]

Float(i) == Frac(i, 1)

IsNum(a) == a.k = "num"

\* a - b
FSub(a, b) ==
    IF a.k = "nan" \/ b.k = "nan" THEN NaN
    ELSE IF a.k = "inf" /\ b.k = "inf"
    THEN (IF a.n = b.n THEN NaN ELSE a)
    ELSE IF a.k = "inf" THEN a
    ELSE IF b.k = "inf" THEN Inf(0 - b.n)
    ELSE Frac(a.n * b.d - b.n * a.d, a.d * b.d)

\* a * b
FMul(a, b) ==
    IF a.k = "nan" \/ b.k = "nan" THEN NaN
    ELSE IF a.k = "inf" \/ b.k = "inf"
    THEN (IF Sign(a.n) * Sign(b.n) = 0 THEN NaN ELSE Inf(Sign(a.n) * Sign(b.n)))
    ELSE Frac(a.n * b.n, a.d * b.d)

\* a / b as numpy divides floats: x/0 is an infinity, 0/0 is NaN
FDiv(a, b) ==
    IF a.k = "nan" \/ b.k = "nan" THEN NaN
    ELSE IF b.k = "inf" THEN (IF a.k = "inf" THEN NaN ELSE Float(0))
    ELSE IF a.k = "inf"
    THEN Inf(IF b.n < 0 THEN 0 - a.n ELSE a.n)
    ELSE IF b.n = 0 THEN (IF a.n = 0 THEN NaN ELSE Inf(Sign(a.n)))
    ELSE Frac(a.n * b.d, a.d * b.n)

\* a < b, for two floats neither of which is NaN
FLess(a, b) ==
    IF a.k = "inf" THEN a.n < 0 /\ ~(b.k = "inf" /\ b.n < 0)
    ELSE IF b.k = "inf" THEN b.n > 0
    ELSE a.n * b.d < b.n * a.d

---------------------------------------------------------------------------
(* Frames: the long table and its aggregates *)

\* a category value: a text, or missing
Null == [null |-> TRUE, s |-> <<>>]
Lab(s) == [null |-> FALSE, s |-> s]

\* the order in which pandas sorts group keys: by text, a missing key last
LabelLess(a, b) ==
    IF a.null THEN FALSE
    ELSE IF b.null THEN TRUE
    ELSE TextLess(a.s, b.s)

GroupKeyLess(a, b) ==
    IF a[1] # b[1] THEN LabelLess(a[1], b[1]) ELSE a[2] < b[2]

\* the members of a finite set of years, labels or group keys in increasing order
SortYears(S) ==
    [i \in 1..Cardinality(S) |->
        CHOOSE x \in S : Cardinality({y \in S : y < x}) = i - 1]

SortLabels(S) ==
    [i \in 1..Cardinality(S) |->
        CHOOSE x \in S : Cardinality({y \in S : LabelLess(y, x)}) = i - 1]

SortGroupKeys(S) ==
    [i \in 1..Cardinality(S) |->
        CHOOSE x \in S : Cardinality({y \in S : GroupKeyLess(y, x)}) = i - 1]

RECURSIVE SumConsumption(_)
SumConsumption(rows) ==
    IF rows = <<>> THEN 0
    ELSE rows[1].consumption + SumConsumption(Tail(rows))

\* df.groupby([col, "year"], dropna=dropna)["consumption"].sum().reset_index()
GroupBySum(rows, col, dropna) ==
    LET kept == SelectSeq(rows, LAMBDA r : ~(dropna /\ r[col].null))
        keys == {<<kept[i][col], kept[i].year>> : i \in 1..Len(kept)}
        order == SortGroupKeys(keys)
    IN [i \in 1..Len(order) |->
          [key |-> order[i][1],
           year |-> order[i][2],
           consumption |->
              SumConsumption(SelectSeq(kept,
                  LAMBDA r : r[col] = order[i][1] /\ r.year = order[i][2]))]]

\* df.groupby("year")["consumption"].sum().reset_index()
GroupByYear(rows) ==
    LET years == SortYears({rows[i].year : i \in 1..Len(rows)})
    IN [i \in 1..Len(years) |->
          [year |-> years[i],
           consumption |->
              SumConsumption(SelectSeq(rows, LAMBDA r : r.year = years[i]))]]

\* base.pivot(index=<key>, columns="year", values="consumption").fillna(0)
Pivot(agg) ==
    LET index == SortLabels({agg[i].key : i \in 1..Len(agg)})
        columns == SortYears({agg[i].year : i \in 1..Len(agg)})
    IN [index |-> index,
        columns |-> columns,
        cell |-> [c \in {<<index[i], columns[j]>> :
                            i \in 1..Len(index), j \in 1..Len(columns)} |->
                    IF \E i \in 1..Len(agg) : agg[i].key = c[1] /\ agg[i].year = c[2]
                    THEN (CHOOSE r \in Range(agg) :
                             r.key = c[1] /\ r.year = c[2]).consumption
                    ELSE 0]]

\* the orders sort_values(by, ascending=False) may give, vals[i] being the
\* value of rows[i] in the column sorted by: non-increasing in the value, NaN
\* last; the default kind="quicksort" is not a stable sort, so the order among
\* equal values is any
SortDescending(rows, vals) ==
    LET n == Len(rows)
        ok(p) ==
            /\ \A i, j \in 1..n : i # j => p[i] # p[j]
            /\ \A i \in 1..(n - 1) :
                 LET a == vals[p[i]]
                     b == vals[p[i + 1]]
                 IN IF a.k = "nan" THEN b.k = "nan"
                    ELSE b.k = "nan" \/ ~FLess(a, b)
    IN {[i \in 1..n |-> rows[p[i]]] : p \in {q \in [1..n -> 1..n] : ok(q)}}

---------------------------------------------------------------------------
(* run_analysis.py *)

\* pvt[cols].mean(axis=1) for one row of the pivot: NaN over no column
RowMean(pvt, c, cols) ==
    IF cols = <<>> THEN NaN
    ELSE Frac(SumSeq([j \in 1..Len(cols) |-> pvt.cell[<<c, cols[j]>>]]), Len(cols))

\* Series.replace(0, np.nan) on one value
ReplaceZero(x) == IF x = Float(0) THEN NaN ELSE x

\* the mutant of pct_change_2022_vs_baseline: the baseline without replace(0, nan)
PctChangeKeepingZeroBaseline(pvt) ==
    IF 2022 \notin Range(pvt.columns) THEN <<>>
    ELSE LET others == SelectSeq(pvt.columns, LAMBDA y : y # 2022)
             baseline(c) == RowMean(pvt, c, others)
         IN [i \in 1..Len(pvt.index) |->
               [business_type |-> pvt.index[i],
                pct_change_vs_baseline |->
                   FMul(FDiv(FSub(Float(pvt.cell[<<pvt.index[i], 2022>>]),
                                  baseline(pvt.index[i])),
                             baseline(pvt.index[i])),
                        Float(100))]]

\* lines 9-16; the empty frame of line 12 is <<>>
pct_change_2022_vs_baseline(pvt) ==
    IF 2022 \notin Range(pvt.columns) THEN <<>>
    ELSE LET others == SelectSeq(pvt.columns, LAMBDA y : y # 2022)
             baseline(c) == ReplaceZero(RowMean(pvt, c, others))
         IN [i \in 1..Len(pvt.index) |->
               [business_type |-> pvt.index[i],
                pct_change_vs_baseline |->
                   FMul(FDiv(FSub(Float(pvt.cell[<<pvt.index[i], 2022>>]),
                                  baseline(pvt.index[i])),
                             baseline(pvt.index[i])),
                        Float(100))]]

\* the mutant of ReportByBusiness: groupby's default, dropna=True
ReportByBusinessDroppingNull(rows) == GroupBySum(rows, "business_type", TRUE)

\* line 23
ReportByBusiness(rows) == GroupBySum(rows, "business_type", FALSE)

\* line 24
ReportByZone(rows) == GroupBySum(rows, "resource_zone", FALSE)

\* line 25
ReportByOccupancy(rows) == GroupBySum(rows, "occupancy_status", FALSE)

\* the column 'consumption' of a table, as floats
ConsumptionOf(rows) == [i \in 1..Len(rows) |-> Float(rows[i].consumption)]

\* the rows of a table for one year, in an order the descending sort may give
RankedInYear(agg, y) ==
    LET sel == SelectSeq(agg, LAMBDA r : r.year = y)
    IN SortDescending(sel, ConsumptionOf(sel))

\* max of a non-empty set of integers
Max(S) == CHOOSE x \in S : \A y \in S : y <= x

KeyError(line) == [ran |-> TRUE, status |-> "KeyError", line |-> line]

\* run_analysis.main, lines 19-54, on the table of df
RunAnalysisMain ==
    /\ ~report.ran
    /\ df.rows # <<>>
    /\ IF "business_type" \notin df.schema THEN report' = KeyError(23)
       ELSE IF "resource_zone" \notin df.schema THEN report' = KeyError(24)
       ELSE LET by_year == GroupByYear(df.rows)
                by_business == ReportByBusiness(df.rows)
                by_zone == ReportByZone(df.rows)
                has_occ == "occupancy_status" \in df.schema
                by_occ == IF has_occ THEN ReportByOccupancy(df.rows) ELSE <<>>
                pvt == Pivot(by_business)
                anomalies == pct_change_2022_vs_baseline(pvt)
                latest == Max({by_year[i].year : i \in 1..Len(by_year)})
            IN \E sorted \in RankedInYear(by_business, latest) :
                 report' = [ran |-> TRUE, status |-> "ok", line |-> 0,
                            by_year |-> by_year,
                            by_business |-> by_business,
                            by_zone |-> by_zone,
                            has_occ |-> has_occ,
                            by_occ |-> by_occ,
                            pvt |-> pvt,
                            anomalies |-> anomalies,
                            latest |-> latest,
                            top |-> Head5(sorted),
                            listed |-> Head5(anomalies)]
    /\ UNCHANGED <<raw, prep, df, dash>>

---------------------------------------------------------------------------
(* dashboards/app.py *)

CategoryColumns == {"business_type", "resource_zone", "occupancy_status"}

T_None == <<"N","o","n","e">>
T_vacant == <<"v","a","c","a","n","t">>

\* str(x) of a category value; a missing value of the parquet file reads None
AsStr(x) == IF x.null THEN T_None ELSE x.s

\* load_data, lines 169-173: every category column present is cast to str and
\* stripped; consumption is numeric already and no row is dropped
load_data(frame) ==
    [schema |-> frame.schema,
     rows |-> [i \in 1..Len(frame.rows) |->
                 [c \in DOMAIN frame.rows[i] |->
                     IF c \in CategoryColumns /\ c \in frame.schema
                     THEN Lab(Strip(AsStr(frame.rows[i][c])))
                     ELSE frame.rows[i][c]]]]

\* the distinct values of a column, [] when the column is absent (lines 183-185)
UniqueOf(d, col) ==
    IF col \in d.schema THEN {d.rows[i][col] : i \in 1..Len(d.rows)} ELSE {}

YearsOf(d) == {d.rows[i].year : i \in 1..Len(d.rows)}

\* lines 211-213: dff
ApplyFilters(d, year_sel, zone_sel, biz_sel) ==
    SelectSeq(d.rows, LAMBDA r :
        /\ r.year \in year_sel
        /\ (UniqueOf(d, "resource_zone") # {} => r.resource_zone \in zone_sel)
        /\ (UniqueOf(d, "business_type") # {} /\ biz_sel # {}
               => r.business_type \in biz_sel))

\* line 246
DashByBusiness(d) == GroupBySum(d.rows, "business_type", FALSE)

\* line 275
DashByOccupancy(d) == GroupBySum(d.rows, "occupancy_status", TRUE)

\* line 303
DashBase(d) == GroupBySum(d.rows, "business_type", TRUE)

\* line 333
DashByZone(d) == GroupBySum(d.rows, "resource_zone", TRUE)

\* lines 245-268: the outcomes of tab 1, byb being the aggregate of line 246
Tab1(d, byb, latest) ==
    IF "business_type" \in d.schema
    THEN {[state |-> "ok", byb |-> byb, latest |-> latest, top_latest |-> t] :
            t \in RankedInYear(byb, latest)}
    ELSE {[state |-> "unavailable"]}

\* line 288: vac.merge(total_by_year, on="year"), an inner join on the year text
MergeOnYear(vac, total_by_year) ==
    Flatten([i \in 1..Len(vac) |->
               LET m == SelectSeq(total_by_year, LAMBDA t : t.year = vac[i].year)
               IN [j \in 1..Len(m) |->
                     [occupancy_status |-> vac[i].key,
                      year |-> vac[i].year,
                      consumption |-> vac[i].consumption,
                      total |-> m[j].total]]])

\* line 289
VacantShare(r) ==
    FDiv(FMul(Float(100), Float(r.consumption)), Float(r.total))

\* lines 272-294: the outcome of tab 2
Tab2(d) ==
    IF "occupancy_status" \in d.schema
    THEN LET occ == DashByOccupancy(d)
             vac0 == SelectSeq(occ, LAMBDA r : ContainsNoCase(r.key.s, T_vacant))
         IN IF vac0 # <<>>
            THEN LET vac == [i \in 1..Len(vac0) |->
                               [vac0[i] EXCEPT !.year = IntStr(@)]]
                     by_year == GroupByYear(d.rows)
                     total_by_year ==
                        [i \in 1..Len(by_year) |->
                           [year |-> IntStr(by_year[i].year),
                            total |-> by_year[i].consumption]]
                     share == MergeOnYear(vac, total_by_year)
                 IN [state |-> "ok", occ |-> occ, vac |-> vac,
                     share |-> [i \in 1..Len(share) |->
                                  [occupancy_status |-> share[i].occupancy_status,
                                   year |-> share[i].year,
                                   consumption |-> share[i].consumption,
                                   total |-> share[i].total,
                                   vacant_share |-> VacantShare(share[i])]]]
            ELSE [state |-> "no_vacant", occ |-> occ]
    ELSE [state |-> "unavailable"]

\* lines 307-308 for one row of the pivot
Tab3Row(pvt, c, others) ==
    LET baseline == ReplaceZero(RowMean(pvt, c, others))
    IN [business_type |-> c,
        value_2022 |-> pvt.cell[<<c, 2022>>],
        baseline |-> baseline,
        pct_change_2022_vs_baseline |->
           FMul(FDiv(FSub(Float(pvt.cell[<<c, 2022>>]), baseline), baseline),
                Float(100))]

\* the column 'pct_change_2022_vs_baseline' of the table of tab 3
PctOf(rows) == [i \in 1..Len(rows) |-> rows[i].pct_change_2022_vs_baseline]

\* lines 300-326: the outcomes of tab 3
Tab3(d) ==
    IF "business_type" \in d.schema /\ 2022 \in YearsOf(d)
    THEN LET base == DashBase(d)
             pvt == Pivot(base)
             others == SelectSeq(pvt.columns, LAMBDA y : y # 2022)
             table == [i \in 1..Len(pvt.index) |-> Tab3Row(pvt, pvt.index[i], others)]
         IN IF others # <<>>
            THEN {[state |-> "ok", base |-> base, pvt |-> pvt, out |-> o] :
                    o \in SortDescending(table, PctOf(table))}
            ELSE {[state |-> "insufficient", base |-> base, pvt |-> pvt]}
    ELSE {[state |-> "unavailable"]}

\* lines 330-355: the outcomes of tab 4, byz0 being the aggregate of line 333
Tab4(d, byz0, latest) ==
    IF "resource_zone" \in d.schema
    THEN LET byz == [i \in 1..Len(byz0) |-> [byz0[i] EXCEPT !.year = IntStr(@)]]
         IN {[state |-> "ok", byz |-> byz, latest_rank |-> t] :
               t \in RankedInYear(byz, IntStr(latest))}
    ELSE {[state |-> "unavailable"]}

\* one run of the script: lines 175-217 load and filter (st.stop() on an empty
\* selection), lines 243-355 render tabs 1-4.  The years are any selection;
\* "Select all zones" and "Select all business types" keep their default, ticked
DashboardRun ==
    /\ ~dash.ran
    /\ df.rows # <<>>
    /\ LET d == load_data(df)
           zone_sel == UniqueOf(d, "resource_zone")
           biz_sel == UniqueOf(d, "business_type")
           byb == DashByBusiness(d)
           byz == DashByZone(d)
           tab2 == Tab2(d)
           tab3 == Tab3(d)
       IN \E year_sel \in SUBSET YearsOf(d) :
            IF year_sel = {} \/ ApplyFilters(d, year_sel, zone_sel, biz_sel) = <<>>
            THEN dash' = [ran |-> TRUE, stopped |-> TRUE]
            ELSE \E t1 \in Tab1(d, byb, Max(year_sel)), t3 \in tab3,
                    t4 \in Tab4(d, byz, Max(year_sel)) :
                   dash' = [ran |-> TRUE, stopped |-> FALSE,
                            tab1 |-> t1, tab2 |-> tab2, tab3 |-> t3, tab4 |-> t4]
    /\ UNCHANGED <<raw, prep, df, report>>

---------------------------------------------------------------------------
(* The processed table: what prepare_data.main can have written *)

T_bank == <<"b","a","n","k">>
T_cafe == <<"c","a","f","e">>
T_cafe_sp == <<"c","a","f","e"," ">>
T_rz1 == <<"r","z","1">>
T_rz2 == <<"r","z","2">>
T_Occupied == <<"O","c","c","u","p","i","e","d">>
T_Vacant == <<"V","a","c","a","n","t">>
T_VACANT_lot == <<"V","A","C","A","N","T"," ","l","o","t">>

\* the properties of the model: their business type, zone and occupancy
Profiles ==
    << [business_type |-> Lab(T_bank), resource_zone |-> Lab(T_rz1),
        occupancy_status |-> Lab(T_Occupied)],
       [business_type |-> Lab(T_cafe), resource_zone |-> Lab(T_rz1),
        occupancy_status |-> Lab(T_Vacant)],
       [business_type |-> Null, resource_zone |-> Lab(T_rz2),
        occupancy_status |-> Lab(T_VACANT_lot)],
       [business_type |-> Lab(T_cafe_sp), resource_zone |-> Null,
        occupancy_status |-> Null] >>

Years == <<2021, 2022, 2023>>
Consumptions == <<0, 1>>

\* row k of the pool: a property, a year and a consumption
PoolSize == Len(Profiles) * Len(Years) * Len(Consumptions)

PoolRow(k) ==
    LET p == Profiles[((k - 1) \div (Len(Years) * Len(Consumptions))) + 1]
        y == Years[(((k - 1) \div Len(Consumptions)) % Len(Years)) + 1]
        c == Consumptions[((k - 1) % Len(Consumptions)) + 1]
    IN [business_type |-> p.business_type,
        resource_zone |-> p.resource_zone,
        occupancy_status |-> p.occupancy_status,
        year |-> y,
        consumption |-> c]

\* a table without the column col: no row carries a value in it
WithoutColumn(rows, absent) ==
    [i \in 1..Len(rows) |->
        [c \in DOMAIN rows[i] |-> IF c \in absent THEN Null ELSE rows[i][c]]]

\* the tables of at most n rows of the pool, in the order of the pool
TableOf(pick, absent) ==
    [schema |-> CategoryColumns \ absent,
     rows |-> WithoutColumn([i \in 1..Len(pick) |-> PoolRow(pick[i])], absent)]

\* a processed table with every canonical column
InitAnalysis ==
    /\ raw = NoTable
    /\ prep = NoPrep
    /\ \E n \in 1..MaxRows :
         \E pick \in [1..n -> 1..PoolSize] :
            /\ \A i \in 1..(n - 1) : pick[i] <= pick[i + 1]
            /\ df = TableOf(pick, {})
    /\ report = NotRun
    /\ dash = NotRun

\* a processed table that lacks one canonical column
InitMissing ==
    /\ raw = NoTable
    /\ prep = NoPrep
    /\ \E n \in 1..MaxRowsMissing :
         \E pick \in [1..n -> 1..PoolSize] :
            /\ \A i \in 1..(n - 1) : pick[i] <= pick[i + 1]
            /\ \E col \in CategoryColumns : df = TableOf(pick, {col})
    /\ report = NotRun
    /\ dash = NotRun

NextAnalysis == RunAnalysisMain \/ DashboardRun

SpecAnalysis == InitAnalysis /\ [][NextAnalysis]_vars

SpecMissing == InitMissing /\ [][NextAnalysis]_vars

---------------------------------------------------------------------------
(* Properties *)

\* the consumption of the rows of a table that satisfy a condition
ConsumptionWhere(rows, cond(_)) == SumConsumption(SelectSeq(rows, cond))

Total(rows) == ConsumptionWhere(rows, LAMBDA r : TRUE)

ReportOk == report.ran /\ report.status = "ok"
DashOk == dash.ran /\ ~dash.stopped

AsInt(y) == y

\* an aggregate keeps the consumption of the table and has a group for every
\* year of the rows whose value in the column is missing (shown as nullKey)
Conserves(agg, rows, col, nullKey, yearAs(_)) ==
    /\ Total(agg) = Total(rows)
    /\ \A i \in 1..Len(rows) :
          rows[i][col].null =>
             \E j \in 1..Len(agg) :
                /\ agg[j].key = nullKey
                /\ agg[j].year = yearAs(rows[i].year)
                /\ agg[j].consumption =
                      ConsumptionWhere(rows, LAMBDA r :
                          r[col].null /\ r.year = rows[i].year)

\* C3: for each grouping dimension (business_type, resource zone,
\* occupancy_status, each with year) the consumption of the aggregate table sums
\* to the consumption of the long table, in the report and in the dashboard, and
\* the rows whose category is missing form a group of their own
C3_AggregationConservation ==
    /\ ReportOk =>
          /\ Conserves(report.by_business, df.rows, "business_type", Null, AsInt)
          /\ Conserves(report.by_zone, df.rows, "resource_zone", Null, AsInt)
          /\ report.has_occ
          /\ Conserves(report.by_occ, df.rows, "occupancy_status", Null, AsInt)
    /\ DashOk =>
          /\ dash.tab1.state = "ok"
          /\ Conserves(dash.tab1.byb, df.rows, "business_type", Lab(T_None), AsInt)
          /\ dash.tab2.state # "unavailable"
          /\ Conserves(dash.tab2.occ, df.rows, "occupancy_status", Lab(T_None), AsInt)
          /\ dash.tab3.state # "unavailable" =>
                Conserves(dash.tab3.base, df.rows, "business_type", Lab(T_None), AsInt)
          /\ dash.tab4.state = "ok"
          /\ Conserves(dash.tab4.byz, df.rows, "resource_zone", Lab(T_None), IntStr)

\* the report and the dashboard have aggregated a table in which a row with
\* consumption has no business type, one no zone and one no occupancy
C3_Witness ==
    /\ ReportOk
    /\ DashOk
    /\ dash.tab3.state = "ok"
    /\ \A col \in CategoryColumns :
          \E i \in 1..Len(df.rows) : df.rows[i][col].null /\ df.rows[i].consumption > 0
    /\ \E j \in 1..Len(report.by_business) :
          report.by_business[j].key = Null /\ report.by_business[j].consumption > 0

\* the year columns of a pivot other than 2022
OtherYears(pvt) == SelectSeq(pvt.columns, LAMBDA y : y # 2022)

\* the consumption of category c over the years other than 2022, from the rows
SumOfOthers(rows, c, others) ==
    ConsumptionWhere(rows, LAMBDA r : r.business_type = c /\ r.year \in Range(others))

\* pct is (v - S/n) / (S/n) x 100, and null when S = 0
IsPctChange(pct, v, S, n) ==
    IF S = 0 THEN pct = NaN
    ELSE pct.k = "num" /\ pct.n * S = 100 * (v * n - S) * pct.d

\* baseline is S/n, and null when S = 0
IsBaseline(baseline, S, n) ==
    IF S = 0 THEN baseline = NaN
    ELSE baseline.k = "num" /\ baseline.n * n = S * baseline.d

\* the cells of a pivot are the sums of the rows, 0 where the category has no row
CellsFrom(pvt, rows) ==
    \A c \in Range(pvt.index), y \in Range(pvt.columns) :
        pvt.cell[<<c, y>>] =
            ConsumptionWhere(rows, LAMBDA r : r.business_type = c /\ r.year = y)

\* C10: for a pivot with 2022 and another year, each category's baseline is the
\* mean of its consumption over the year columns other than 2022 (0 for a year
\* without rows), pct_change is (value_2022 - baseline) / baseline x 100, it is
\* null exactly when the baseline is 0 and then never infinite, and the report
\* and the dashboard give the same value for the same pivot
C10_BaselineAndPctChange ==
    /\ (ReportOk /\ 2022 \in Range(report.pvt.columns)
                 /\ OtherYears(report.pvt) # <<>>) =>
          /\ CellsFrom(report.pvt, df.rows)
          /\ Len(report.anomalies) = Len(report.pvt.index)
          /\ \A i \in 1..Len(report.anomalies) :
                LET c == report.pvt.index[i]
                    others == OtherYears(report.pvt)
                IN /\ report.anomalies[i].business_type = c
                   /\ IsPctChange(report.anomalies[i].pct_change_vs_baseline,
                                  report.pvt.cell[<<c, 2022>>],
                                  SumOfOthers(df.rows, c, others), Len(others))
    /\ (DashOk /\ dash.tab3.state = "ok") =>
          /\ CellsFrom(dash.tab3.pvt, load_data(df).rows)
          /\ {dash.tab3.out[i].business_type : i \in 1..Len(dash.tab3.out)}
                = Range(dash.tab3.pvt.index)
          /\ \A i \in 1..Len(dash.tab3.out) :
                LET r == dash.tab3.out[i]
                    others == OtherYears(dash.tab3.pvt)
                    S == SumOfOthers(load_data(df).rows, r.business_type, others)
                IN /\ r.value_2022 = dash.tab3.pvt.cell[<<r.business_type, 2022>>]
                   /\ IsBaseline(r.baseline, S, Len(others))
                   /\ IsPctChange(r.pct_change_2022_vs_baseline, r.value_2022,
                                  S, Len(others))
    /\ (ReportOk /\ DashOk /\ dash.tab3.state = "ok"
                 /\ report.pvt = dash.tab3.pvt) =>
          \A i \in 1..Len(report.anomalies), j \in 1..Len(dash.tab3.out) :
             report.anomalies[i].business_type = dash.tab3.out[j].business_type =>
                report.anomalies[i].pct_change_vs_baseline
                   = dash.tab3.out[j].pct_change_2022_vs_baseline

\* the report and the dashboard have computed the change over the same pivot of
\* 2022 and two other years, one category with a baseline of 0 and a value in
\* 2022, another with a baseline that is not a whole number
C10_Witness ==
    /\ ReportOk
    /\ DashOk
    /\ dash.tab3.state = "ok"
    /\ report.pvt = dash.tab3.pvt
    /\ Len(OtherYears(report.pvt)) = 2
    /\ \E i, j \in 1..Len(report.anomalies) :
          /\ report.anomalies[i].pct_change_vs_baseline = NaN
          /\ report.pvt.cell[<<report.pvt.index[i], 2022>>] > 0
          /\ report.anomalies[j].pct_change_vs_baseline.k = "num"
          /\ SumOfOthers(df.rows, report.pvt.index[j], OtherYears(report.pvt)) = 1

\* a cell that to_numeric turns into a number
Parses(cell) == cell.t = "num" \/ (cell.t = "str" /\ IsIntegerText(cell.v))

\* C1: the long table holds exactly one row for each (input row, detected year
\* column) whose cell parses as a number, none for a cell that does not parse,
\* and no two rows for the same (input row, year), also when several column
\* names hold the same 20xx token
C1_OneRowPerRowAndYear ==
    prep.pc = "long" =>
       /\ \A r \in 1..Len(raw.rows), k \in prep.year_cols :
             Cardinality({i \in 1..Len(prep.long_df) :
                             /\ prep.long_df[i].row = r
                             /\ prep.long_df[i].year_col = prep.columns[k]})
                = (IF Parses(raw.rows[r][k]) THEN 1 ELSE 0)
       /\ \A i, j \in 1..Len(prep.long_df) :
             (i # j /\ prep.long_df[i].row = prep.long_df[j].row)
                => prep.long_df[i].year # prep.long_df[j].year

\* the columns whose normalised name is the canonical field's name
Carrying(target) == {i \in 1..Len(prep.columns) : prep.columns[i] = target}

\* C2: names are matched lower-cased and stripped; each canonical field is given
\* to exactly one raw column, the one matching the earliest alias of the field's
\* list that occurs, and no canonical name is carried by two columns, also when
\* the sheet holds two spellings of one alias
C2_OneColumnPerCanonicalField ==
    prep.pc # "read" =>
       \A t \in 1..Len(COLUMN_ALIASES) :
          LET aliases == COLUMN_ALIASES[t].aliases
              target == COLUMN_ALIASES[t].target
              lowered == [i \in 1..Len(raw.columns) |-> Lower(Strip(raw.columns[i]))]
              present == {k \in 1..Len(aliases) : aliases[k] \in Range(lowered)}
          IN /\ Cardinality(Carrying(target)) <= 1
             /\ present # {} =>
                   \E i \in 1..Len(lowered) :
                      /\ Carrying(target) = {i}
                      /\ \E k \in present :
                            lowered[i] = aliases[k] /\ \A j \in present : k <= j

\* C4: when a canonical field is absent, the views that need it end in
\* "unavailable" and never in an exception, and the other views compute, in the
\* report and in the dashboard
C4_MissingFieldDegrades ==
    /\ report.ran =>
          /\ report.status = "ok"
          /\ report.has_occ = ("occupancy_status" \in df.schema)
    /\ DashOk =>
          /\ (dash.tab1.state = "unavailable") = ("business_type" \notin df.schema)
          /\ (dash.tab2.state = "unavailable") = ("occupancy_status" \notin df.schema)
          /\ (dash.tab3.state = "unavailable") =
                ("business_type" \notin df.schema \/ 2022 \notin YearsOf(df))
          /\ (dash.tab4.state = "unavailable") = ("resource_zone" \notin df.schema)

\* C5: when 2022 is the only year of the pivot, the anomaly view reports
\* insufficient baseline years and gives no table of null changes, in the report
\* and in the dashboard
C5_SingleYearIsInsufficient ==
    /\ (ReportOk /\ report.pvt.columns = <<2022>>) =>
          \A i \in 1..Len(report.anomalies) :
             report.anomalies[i].pct_change_vs_baseline # NaN
    /\ (DashOk /\ YearsOf(df) = {2022}) => dash.tab3.state = "insufficient"

\* twice the median of a non-empty sequence of integers
KthSmallest(vals, k) ==
    CHOOSE x \in Range(vals) :
        /\ Cardinality({i \in 1..Len(vals) : vals[i] < x}) < k
        /\ Cardinality({i \in 1..Len(vals) : vals[i] <= x}) >= k

TwiceMedian(vals) ==
    KthSmallest(vals, (Len(vals) + 1) \div 2) + KthSmallest(vals, (Len(vals) \div 2) + 1)

\* pct_change >= 20 and the 2022 value >= the median 2022 value
Significant(pct, v, vals) ==
    /\ pct.k # "nan"
    /\ ~FLess(pct, Float(20))
    /\ 2 * v >= TwiceMedian(vals)

NonIncreasing(pcts) ==
    \A i \in 1..(Len(pcts) - 1) :
        pcts[i].k # "nan" /\ pcts[i + 1].k # "nan" /\ ~FLess(pcts[i], pcts[i + 1])

Values2022(pvt) == [i \in 1..Len(pvt.index) |-> pvt.cell[<<pvt.index[i], 2022>>]]

\* every category of the report's table has a change that is a number
AllChangesDefined ==
    \A i \in 1..Len(report.anomalies) :
        report.anomalies[i].pct_change_vs_baseline.k = "num"

\* C6: the anomaly list holds exactly the categories with pct_change >= 20 and a
\* 2022 value >= the median 2022 value, in descending order of pct_change (here
\* over the tables in which every category has a non-zero baseline)
C6_SignificantList ==
    /\ (ReportOk /\ report.anomalies # <<>> /\ AllChangesDefined) =>
          /\ \A i \in 1..Len(report.anomalies) :
                (\E k \in 1..Len(report.listed) :
                    report.listed[k].business_type = report.anomalies[i].business_type)
                 = Significant(report.anomalies[i].pct_change_vs_baseline,
                               report.pvt.cell[<<report.pvt.index[i], 2022>>],
                               Values2022(report.pvt))
          /\ NonIncreasing([k \in 1..Len(report.listed) |->
                               report.listed[k].pct_change_vs_baseline])
    /\ (DashOk /\ dash.tab3.state = "ok"
               /\ \A i \in 1..Len(dash.tab3.out) :
                     dash.tab3.out[i].pct_change_2022_vs_baseline.k = "num") =>
          \A i \in 1..Len(dash.tab3.out) :
             Significant(dash.tab3.out[i].pct_change_2022_vs_baseline,
                         dash.tab3.out[i].value_2022, Values2022(dash.tab3.pvt))

\* the alphabetically first of the categories with the largest sum in year y
FirstOfLargest(agg, y) ==
    LET inYear == {i \in 1..Len(agg) : agg[i].year = y}
        largest == {i \in inYear : \A j \in inYear : agg[j].consumption <= agg[i].consumption}
    IN agg[CHOOSE i \in largest : \A j \in largest : ~LabelLess(agg[j].key, agg[i].key)].key

\* C7: for each year of the business_type aggregate the view selects the
\* category with the largest sum, the alphabetically first one on a tie
C7_TopCategoryPerYear ==
    /\ ReportOk =>
          \A i \in 1..Len(report.by_business) :
             /\ report.by_business[i].year = report.latest
             /\ report.top[1].key = FirstOfLargest(report.by_business, report.latest)
    /\ (DashOk /\ dash.tab1.state = "ok") =>
          \A i \in 1..Len(dash.tab1.byb) :
             /\ dash.tab1.byb[i].year = dash.tab1.latest
             /\ dash.tab1.top_latest[1].key
                   = FirstOfLargest(dash.tab1.byb, dash.tab1.latest)

IsVacant(r) == ~r.occupancy_status.null /\ ContainsNoCase(r.occupancy_status.s, T_vacant)

\* C8: the vacant view gives one value per year, the consumption of all the
\* rows whose occupancy contains "vacant", and its share of the year's total
\* x 100, undefined when the total is 0
C8_VacantPerYear ==
    (DashOk /\ dash.tab2.state = "ok") =>
       LET rows == load_data(df).rows
       IN \A y \in {rows[i].year : i \in {j \in 1..Len(rows) : IsVacant(rows[j])}} :
             LET ofYear == SelectSeq(dash.tab2.share, LAMBDA s : s.year = IntStr(y))
                 vacant == ConsumptionWhere(rows, LAMBDA r : IsVacant(r) /\ r.year = y)
                 total == ConsumptionWhere(rows, LAMBDA r : r.year = y)
             IN /\ Len(ofYear) = 1
                /\ ofYear[1].consumption = vacant
                /\ IF total = 0 THEN ofYear[1].vacant_share = NaN
                   ELSE /\ ofYear[1].vacant_share.k = "num"
                        /\ ofYear[1].vacant_share.n * total
                              = 100 * vacant * ofYear[1].vacant_share.d

\* the sign of the least-squares slope of the vacant consumption against the
\* year: that of n * sum(x y) - sum(x) * sum(y); 0 with fewer than 2 years
SlopeSign(rows) ==
    LET ys == SortYears({rows[i].year : i \in {j \in 1..Len(rows) : IsVacant(rows[j])}})
        v(y) == ConsumptionWhere(rows, LAMBDA r : IsVacant(r) /\ r.year = y)
        n == Len(ys)
    IN IF n < 2 THEN 0
       ELSE Sign(n * SumSeq([i \in 1..n |-> ys[i] * v(ys[i])])
                 - SumSeq(ys) * SumSeq([i \in 1..n |-> v(ys[i])]))

TrendName(sign) ==
    IF sign > 0 THEN "increasing" ELSE IF sign < 0 THEN "decreasing" ELSE "flat"

\* C9: the vacant view classifies the trend by the sign of the least-squares
\* slope of the vacant consumption against the year
C9_TrendBySlopeSign ==
    (DashOk /\ dash.tab2.state = "ok") =>
       /\ "trend" \in DOMAIN dash.tab2
       /\ dash.tab2.trend = TrendName(SlopeSign(load_data(df).rows))

===========================================================================
